---- MODULE Spec2Model ----
(***************************************************************************)
(* Model of src/mpv2anki.py: SubtitlesHelper (the subtitle pipeline run by  *)
(* init, and the query surface) and the MPVMonitor callbacks that drive it. *)
(*                                                                         *)
(* Times are integers (one unit = one second); the thresholds of the code   *)
(* keep their values.  A caption is the Python tuple (start, end, text); a  *)
(* text is the sequence of its words, so that joining two texts with " "    *)
(* is the concatenation of the sequences and "" is the empty sequence.      *)
(* Sequence positions are 1-based; the code's 0-based indices are kept in   *)
(* idx and in the arguments of the queries, and converted by PyPos.         *)
(***************************************************************************)
EXTENDS Integers, Sequences, FiniteSets, TLC

VARIABLES
    pc,               \* position of SubtitlesHelper.init inside on_start_file
    settings,         \* self.settings["subs_target_language_code"]
    subs,             \* self.subs
    translations,     \* self.translations
    subsPath,         \* self.subsPath
    translationsPath, \* self.translationsPath
    status_code,      \* self.status_code
    idx,              \* the index of the gap-repair loop of sync_subtitles
    sub_delay,        \* self.sub_delay
    ran,              \* which of convert_into_sentences / sync_subtitles this init has called
    reader,           \* where init stood when createAnkiCard last read the tracks
    discarded         \* whether the reset init has just made threw away captions of another file

vars == <<pc, settings, subs, translations, subsPath, translationsPath,
          status_code, idx, sub_delay, ran, reader, discarded>>

---------------------------------------------------------------------------
(* Bounds of the input domain *)

\* longest target track read from a file
MaxSubs == 3

\* longest native track read from a file
MaxNative == 2

\* the instants at which a caption of a file may start or end
TimePoints == {0, 2, 3, 8}

\* the playback instants the player may report to a query
QueryTimes == 0..9

\* the values mpv may report for sub-delay
Delays == {0, 1}

\* the words of the k-th caption of the target and of the native file
TargetWords == <<"We", "go.", "now", "(ok)", "so...">>
NativeWords == <<"my", "idem", "potom", "da">>

---------------------------------------------------------------------------
(* Program constants *)

\* Python's None
None == -1

\* convert_into_sentences: largest gap between two merged captions
MaxSentenceGap == 2

\* convert_into_sentences: a merged sentence is shorter than this
MaxSentenceDuration == 15

\* sync_subtitles: the overlap ratio must exceed 1 / OverlapDen (0.25)
OverlapDen == 4

\* get_prev_subtitle / get_next_subtitle: largest gap to a usable neighbour
NeighbourGap == 5

---------------------------------------------------------------------------
(* Python lists *)

\* position (1-based) of the element a Python index names; negative indices wrap
PyPos(len, i) == IF i < 0 THEN len + i + 1 ELSE i + 1

\* list[i] raises IndexError outside -len .. len-1
PyInRange(len, i) == -len <= i /\ i <= len - 1

\* del list[i]
PyDel(list, i) == [k \in 1..(Len(list) - 1) |-> IF k < i + 1 THEN list[k] ELSE list[k + 1]]

\* list[i] = v
PySet(list, i, v) == [list EXCEPT ![PyPos(Len(list), i)] = v]

\* list[i]
PyGet(list, i) == list[PyPos(Len(list), i)]

---------------------------------------------------------------------------
(* The files the environment offers to read_subtitles *)

SortedByStart(track) ==
    \A k \in 1..(Len(track) - 1) : track[k][1] <= track[k + 1][1]

\* tracks of at most max captions, ordered by start, the k-th one saying words[k]
Tracks(caps, max, words) ==
    UNION {
        { [k \in 1..n |-> <<t[k][1], t[k][2], <<words[k]>> >>] :
            t \in { u \in [1..n -> caps] : SortedByStart(u) } } :
        n \in 0..max }

\* tracks of at most max captions, ordered by start, each saying one word of vocab
TracksSaying(caps, max, vocab) ==
    UNION {
        { [k \in 1..n |-> <<t[k][1][1], t[k][1][2], <<t[k][2]>> >>] :
            t \in { u \in [1..n -> caps \X vocab] :
                        \A k \in 1..(n - 1) : u[k][1][1] <= u[k + 1][1][1] } } :
        n \in 0..max }

TargetTracks ==
    Tracks({c \in TimePoints \X TimePoints : c[1] < c[2]}, MaxSubs, TargetWords)

NativeTracks ==
    Tracks({c \in TimePoints \X TimePoints : c[1] <= c[2]}, MaxNative, NativeWords)

---------------------------------------------------------------------------
(* Texts: what the code reads of a text's first and last characters *)

\* words whose first character is one of " ' ( [ - and the opening quote or note sign
BlockingLeadWords == {"(ok)"}

\* words whose last character is one of . ! ? ) ] " or the closing quote
TerminalWords == {"go.", "(ok)", "so..."}

\* words whose last three characters are "..."
EllipsisEndWords == {"so..."}

\* words whose first three characters are "..."
EllipsisLeadWords == {"...and"}

\* words whose first character is a lower-case letter
LowerLeadWords == {"go.", "now", "so...", "my", "idem", "potom", "da"}

\* words matched by the regular expression ^I\b
PronounIWords == {"I"}

\* sub_content[0] not in ['"', "'", "(", "[", "-", ...]
StartsFree(text) == text[1] \notin BlockingLeadWords

\* prev_sub_content[-1] not in ['.', "!", "?", ")", ']', ...]
EndsOpen(text) == text[Len(text)] \notin TerminalWords

\* prev_sub_content[-3:] == "..." and (sub_content[:3] == "..." or
\* sub_content[0].islower() or re.match(r"^I\b", sub_content))
ContinuesEllipsis(prev_text, text) ==
    /\ prev_text[Len(prev_text)] \in EllipsisEndWords
    /\ \/ text[1] \in EllipsisLeadWords
       \/ text[1] \in LowerLeadWords
       \/ text[1] \in PronounIWords

---------------------------------------------------------------------------
(* convert_into_sentences *)

\* mutant: a gap of exactly 2.0 s does not merge
ShouldMerge_GapBelowTwo(prev, sub) ==
    /\ (sub[1] - prev[2]) < MaxSentenceGap
    /\ (sub[2] - prev[1]) < MaxSentenceDuration
    /\ StartsFree(sub[3])
    /\ (EndsOpen(prev[3]) \/ ContinuesEllipsis(prev[3], sub[3]))

\* the condition of the if that merges caption sub into the last sentence prev
ShouldMerge(prev, sub) ==
    /\ (sub[1] - prev[2]) <= MaxSentenceGap
    /\ (sub[2] - prev[1]) < MaxSentenceDuration
    /\ StartsFree(sub[3])
    /\ (EndsOpen(prev[3]) \/ ContinuesEllipsis(prev[3], sub[3]))

\* subs[-1] = [prev_sub_start, sub_end, prev_sub_content + " " + sub_content]
MergeInto(prev, sub) == <<prev[1], sub[2], prev[3] \o sub[3]>>

\* the local list subs after the loop has consumed the first n captions of track
RECURSIVE ConvertPrefix(_, _)
ConvertPrefix(track, n) ==
    IF n = 0 THEN <<>>
    ELSE LET out == ConvertPrefix(track, n - 1)
             sub == track[n]
         IN IF Len(out) > 0
            THEN IF ShouldMerge(out[Len(out)], sub)
                 THEN [out EXCEPT ![Len(out)] = MergeInto(out[Len(out)], sub)]
                 ELSE Append(out, sub)
            ELSE Append(out, sub)

convert_into_sentences(self_subs) == ConvertPrefix(self_subs, Len(self_subs))

---------------------------------------------------------------------------
(* sync_subtitles, pass 1: overlap matching *)

\* result of the inner loop when the division raises ZeroDivisionError
ZeroDivision == -1

\* mutant: a ratio of exactly 0.25 passes
RatioExceeds_AtQuarter(overlap, duration) ==
    IF duration > 0 THEN OverlapDen * overlap >= duration
                    ELSE OverlapDen * overlap <= duration

\* (sub_end - sub_start) / (ru_sub_end - ru_sub_start) > 0.25, for a non-zero divisor
RatioExceeds(overlap, duration) ==
    IF duration > 0 THEN OverlapDen * overlap > duration
                    ELSE OverlapDen * overlap < duration

\* the inner loop from position i on: the position of the sentence ru_sub is
\* appended to, 0 when the loop ends without a break, ZeroDivision when it raises
RECURSIVE ScanSentences(_, _, _)
ScanSentences(en_subs, ru_sub, i) ==
    IF i > Len(en_subs) THEN 0
    ELSE LET en_sub_start == en_subs[i][1]
             en_sub_end == en_subs[i][2]
             ru_sub_start == ru_sub[1]
             ru_sub_end == ru_sub[2]
             sub_start == IF en_sub_start > ru_sub_start THEN en_sub_start ELSE ru_sub_start
             sub_end == IF ru_sub_end > en_sub_end THEN en_sub_end ELSE ru_sub_end
         IN IF en_sub_start < ru_sub_end /\ en_sub_end > ru_sub_start
            THEN IF ru_sub_end - ru_sub_start = 0 THEN ZeroDivision
                 ELSE IF RatioExceeds(sub_end - sub_start, ru_sub_end - ru_sub_start)
                      THEN i
                      ELSE ScanSentences(en_subs, ru_sub, i + 1)
            ELSE ScanSentences(en_subs, ru_sub, i + 1)

\* pass 1 raises as soon as one native caption makes the division raise
Pass1Raises(en_subs, ru_subs) ==
    \E k \in 1..Len(ru_subs) : ScanSentences(en_subs, ru_subs[k], 1) = ZeroDivision

\* the contributions appended to subs[i], in the order of the native track
Bucket(en_subs, ru_subs, i) ==
    SelectSeq(ru_subs, LAMBDA r : ScanSentences(en_subs, r, 1) = i)

\* " ".join(sub[2])
RECURSIVE JoinTexts(_)
JoinTexts(bucket) ==
    IF Len(bucket) = 0 THEN <<>> ELSE bucket[1][3] \o JoinTexts(Tail(bucket))

\* the list self.translations built from the buckets
CollapseBuckets(en_subs, ru_subs) ==
    [i \in 1..Len(en_subs) |->
        LET sub == Bucket(en_subs, ru_subs, i)
        IN IF Len(sub) = 0
           THEN <<en_subs[i][1], en_subs[i][2], <<>> >>
           ELSE <<sub[1][1], sub[Len(sub)][2], JoinTexts(sub)>>]

---------------------------------------------------------------------------
(* sync_subtitles, pass 2: gap repair *)

\* self.subs[idx-1] = [self.subs[idx-1][0], self.subs[idx][1], text of idx-1 + " " + text of idx]
MergeBackward(s, i) ==
    PySet(s, i - 1, <<PyGet(s, i - 1)[1], PyGet(s, i)[2], PyGet(s, i - 1)[3] \o PyGet(s, i)[3]>>)

\* mutant: self.subs[idx][1] is written where self.subs[idx][0] is meant
MergeForward_StartFromEnd(s, i) ==
    PySet(s, i + 1, <<PyGet(s, i)[2], PyGet(s, i + 1)[2], PyGet(s, i)[3] \o PyGet(s, i + 1)[3]>>)

\* mutant: the text of idx is put after the text of idx+1
MergeForward_NextTextFirst(s, i) ==
    PySet(s, i + 1, <<PyGet(s, i)[1], PyGet(s, i + 1)[2], PyGet(s, i + 1)[3] \o PyGet(s, i)[3]>>)

\* self.subs[idx+1] = [self.subs[idx][0], self.subs[idx+1][1], text of idx + " " + text of idx+1]
MergeForward(s, i) ==
    PySet(s, i + 1, <<PyGet(s, i)[1], PyGet(s, i + 1)[2], PyGet(s, i)[3] \o PyGet(s, i + 1)[3]>>)

\* mutant: the second and the third test of the chain change places
MergesBackward_ForwardFirst(s, t, i) ==
    LET en_sub_start == PyGet(s, i)[1]
        en_sub_end == PyGet(s, i)[2]
        ru_prev_sub_end == IF i > 0 THEN PyGet(t, i - 1)[2] ELSE 0
        ru_next_sub_start == IF i < Len(s) - 1 THEN PyGet(t, i + 1)[1] ELSE 0
    IN IF i = Len(s) - 1 THEN TRUE
       ELSE IF en_sub_start >= ru_next_sub_start \/ en_sub_start >= ru_prev_sub_end THEN FALSE
       ELSE IF en_sub_end <= ru_next_sub_start /\ i > 0 THEN TRUE
       ELSE IF (ru_prev_sub_end - en_sub_start) > (en_sub_end - ru_next_sub_start) /\ i > 0 THEN TRUE
       ELSE FALSE

\* mutant: the second test of the chain lacks its "and idx > 0"
MergesBackward_Unguarded(s, t, i) ==
    LET en_sub_start == PyGet(s, i)[1]
        en_sub_end == PyGet(s, i)[2]
        ru_prev_sub_end == IF i > 0 THEN PyGet(t, i - 1)[2] ELSE 0
        ru_next_sub_start == IF i < Len(s) - 1 THEN PyGet(t, i + 1)[1] ELSE 0
    IN IF i = Len(s) - 1 THEN TRUE
       ELSE IF en_sub_end <= ru_next_sub_start THEN TRUE
       ELSE IF en_sub_start >= ru_next_sub_start \/ en_sub_start >= ru_prev_sub_end THEN FALSE
       ELSE IF (ru_prev_sub_end - en_sub_start) > (en_sub_end - ru_next_sub_start) /\ i > 0 THEN TRUE
       ELSE FALSE

\* the direction the if / elif chain takes for the empty annotation at index i
MergesBackward(s, t, i) ==
    LET en_sub_start == PyGet(s, i)[1]
        en_sub_end == PyGet(s, i)[2]
        ru_prev_sub_end == IF i > 0 THEN PyGet(t, i - 1)[2] ELSE 0
        ru_next_sub_start == IF i < Len(s) - 1 THEN PyGet(t, i + 1)[1] ELSE 0
    IN IF i = Len(s) - 1 THEN TRUE
       ELSE IF en_sub_end <= ru_next_sub_start /\ i > 0 THEN TRUE
       ELSE IF en_sub_start >= ru_next_sub_start \/ en_sub_start >= ru_prev_sub_end THEN FALSE
       ELSE IF (ru_prev_sub_end - en_sub_start) > (en_sub_end - ru_next_sub_start) /\ i > 0 THEN TRUE
       ELSE FALSE

\* mutant: the loop stops one index early
RepairContinues_OffByOne(s, i) == i < Len(s) - 1 /\ Len(s) > 1

\* the condition of the while loop
RepairContinues(s, i) == i < Len(s) /\ Len(s) > 1

\* mutant: del self.translations[idx] is missing
RepairStep_KeepsAnnotation(s, t, i) ==
    IF PyGet(t, i)[3] = <<>>
    THEN [subs |-> PyDel(IF MergesBackward(s, t, i) THEN MergeBackward(s, i)
                                                    ELSE MergeForward(s, i), i),
          translations |-> t,
          idx |-> i]
    ELSE [subs |-> s, translations |-> t, idx |-> i + 1]

\* mutant: idx is advanced after a deletion too
RepairStep_AlwaysAdvances(s, t, i) ==
    IF PyGet(t, i)[3] = <<>>
    THEN [subs |-> PyDel(IF MergesBackward(s, t, i) THEN MergeBackward(s, i)
                                                    ELSE MergeForward(s, i), i),
          translations |-> PyDel(t, i),
          idx |-> i + 1]
    ELSE [subs |-> s, translations |-> t, idx |-> i + 1]

\* mutant: the annotation of the sentence merged into is deleted, not the empty one
RepairStep_DeletesNeighbour(s, t, i) ==
    IF PyGet(t, i)[3] = <<>>
    THEN [subs |-> PyDel(IF MergesBackward(s, t, i) THEN MergeBackward(s, i)
                                                    ELSE MergeForward(s, i), i),
          translations |-> PyDel(t, IF MergesBackward(s, t, i) THEN i - 1 ELSE i + 1),
          idx |-> i]
    ELSE [subs |-> s, translations |-> t, idx |-> i + 1]

\* mutant: the scan starts again from index 0 after a deletion
RepairStep_Restarts(s, t, i) ==
    IF PyGet(t, i)[3] = <<>>
    THEN [subs |-> PyDel(IF MergesBackward(s, t, i) THEN MergeBackward(s, i)
                                                    ELSE MergeForward(s, i), i),
          translations |-> PyDel(t, i),
          idx |-> 0]
    ELSE [subs |-> s, translations |-> t, idx |-> i + 1]

\* one iteration of the while loop
RepairStep(s, t, i) ==
    IF PyGet(t, i)[3] = <<>>
    THEN [subs |-> PyDel(IF MergesBackward(s, t, i) THEN MergeBackward(s, i)
                                                    ELSE MergeForward(s, i), i),
          translations |-> PyDel(t, i),
          idx |-> i]
    ELSE [subs |-> s, translations |-> t, idx |-> i + 1]

\* the indices of self.subs an iteration at an empty annotation reads or writes:
\* idx, and idx-1 or idx+1 as the chain decides
SubsAccessed(s, t, i) ==
    {i} \cup (IF MergesBackward(s, t, i) THEN {i - 1} ELSE {i + 1})

\* the indices of self.translations it reads: idx, idx-1 under "if idx > 0" and idx+1
\* under "if idx < len(self.subs) - 1"
TranslationsAccessed(s, i) ==
    {i} \cup (IF i > 0 THEN {i - 1} ELSE {}) \cup (IF i < Len(s) - 1 THEN {i + 1} ELSE {})

\* the whole while loop, from index i on
RECURSIVE GapRepair(_, _, _)
GapRepair(s, t, i) ==
    IF RepairContinues(s, i)
    THEN LET r == RepairStep(s, t, i) IN GapRepair(r.subs, r.translations, r.idx)
    ELSE [subs |-> s, translations |-> t, idx |-> i]
---------------------------------------------------------------------------
(* The query surface.  A query returns Return(value) or raises: Raise(name) *)

Return(v) == [exc |-> "none", val |-> v]
Raise(e) == [exc |-> e, val |-> <<>>]

\* the loop of filter_subtitles from position i on, with its break on sub_start > clip_end
RECURSIVE FilterFrom(_, _, _, _, _, _)
FilterFrom(track, i, clip_start, clip_end, pad_start, pad_end) ==
    IF i > Len(track) THEN <<>>
    ELSE LET sub_start == track[i][1]
             sub_end == track[i][2]
             sub_content == track[i][3]
             here == IF sub_end > (clip_start + pad_start) /\ sub_start < (clip_end - pad_end)
                     THEN << <<sub_start - clip_start, sub_end - clip_start, sub_content>> >>
                     ELSE <<>>
         IN IF sub_start > clip_end
            THEN here
            ELSE here \o FilterFrom(track, i + 1, clip_start, clip_end, pad_start, pad_end)

filter_subtitles(self_subs, self_translations, clip_start, clip_end, pad_start, pad_end, translation) ==
    FilterFrom(IF ~translation THEN self_subs ELSE self_translations,
               1, clip_start, clip_end, pad_start, pad_end)

\* the list subs that write_subtitles numbers and writes to the file
write_subtitles(self_subs, self_translations, self_sub_delay, clip_start, clip_end, pad_start, pad_end) ==
    filter_subtitles(self_subs, self_translations, clip_start - self_sub_delay,
                     clip_end - self_sub_delay, pad_start, pad_end, FALSE)

\* mins, secs = divmod(seconds, 60); hours, mins = divmod(mins, 60);
\* millisecs = int(seconds * 1000) % 1000, on a whole number of seconds
getTimeParts(seconds) ==
    LET mins == seconds \div 60
        secs == seconds % 60
        hours == mins \div 60
    IN <<hours, mins % 60, secs, (seconds * 1000) % 1000>>

\* what '%02d' and '%03d' print for n: a minus sign when n is negative, then the digits
FormatD(n) == [sign |-> IF n < 0 THEN "-" ELSE "", digits |-> IF n < 0 THEN 0 - n ELSE n]

\* '%02d:%02d:%02d,%03d' % getTimeParts(time): the four fields as printed
seconds_to_srt_time(time) == [k \in 1..4 |-> FormatD(getTimeParts(time)[k])]

\* the records write_subtitles writes to the file for the list subs: the number,
\* the two timestamps around " --> ", the text
srt_records(list) ==
    [k \in 1..Len(list) |->
        [number |-> k,
         start |-> seconds_to_srt_time(list[k][1]),
         end |-> seconds_to_srt_time(list[k][2]),
         text |-> list[k][3]]]

\* the time the subtitle parser reads from a printed timestamp, in seconds: the
\* digits of hours : minutes : seconds , milliseconds (a Time is non-negative, a
\* timestamp has no sign), then line.start / 1000
parse_timestamp(stamp) ==
    (stamp[1].digits * 3600000 + stamp[2].digits * 60000
        + stamp[3].digits * 1000 + stamp[4].digits) \div 1000

\* read_subtitles on a written file: (line.start / 1000, line.end / 1000, line.text);
\* the texts written are normalised already and none is empty
read_subtitles(records) ==
    [k \in 1..Len(records) |->
        <<parse_timestamp(records[k].start), parse_timestamp(records[k].end),
          records[k].text>>]

\* the loop of get_subtitle_id from position i on; None when it ends without a return
RECURSIVE SubtitleIdFrom(_, _, _)
SubtitleIdFrom(self_subs, i, time_pos) ==
    IF i > Len(self_subs) THEN None
    ELSE IF self_subs[i][1] <= time_pos /\ time_pos <= self_subs[i][2] THEN i - 1
    ELSE SubtitleIdFrom(self_subs, i + 1, time_pos)

\* mutant: the delay is added to the playback time
get_subtitle_id_AddsDelay(self_subs, self_sub_delay, time_pos) ==
    SubtitleIdFrom(self_subs, 1, time_pos + self_sub_delay)

get_subtitle_id(self_subs, self_sub_delay, time_pos) ==
    SubtitleIdFrom(self_subs, 1, time_pos - self_sub_delay)

\* list[i] of Python: the element, or IndexError
PyItem(list, i) ==
    IF PyInRange(Len(list), i) THEN Return(PyGet(list, i)) ELSE Raise("IndexError")

get_subtitle(self_subs, self_translations, sub_id, translation) ==
    IF sub_id < 0 \/ sub_id > Len(self_subs) - 1 \/ (translation /\ Len(self_translations) = 0)
    THEN Return(<<None, None, <<>> >>)
    ELSE IF ~translation THEN PyItem(self_subs, sub_id)
                         ELSE PyItem(self_translations, sub_id)

\* '<br>'.join([s[2] for s in subs])
RECURSIVE JoinBr(_)
JoinBr(list) ==
    IF Len(list) = 0 THEN <<>>
    ELSE IF Len(list) = 1 THEN list[1][3]
    ELSE list[1][3] \o <<"<br>">> \o JoinBr(Tail(list))

get_subtitle_by_time_range(self_subs, self_translations, self_sub_delay, start_time, end_time, translation) ==
    JoinBr(filter_subtitles(self_subs, self_translations, start_time, end_time, 0, 0, translation))

get_prev_subtitle(self_subs, self_translations, sub_id, translation) ==
    IF sub_id <= 0 \/ (translation /\ Len(self_translations) = 0)
    THEN IF PyInRange(Len(self_subs), 0)
         THEN Return(<<PyGet(self_subs, 0)[1], PyGet(self_subs, 0)[2], <<>> >>)
         ELSE Raise("IndexError")
    ELSE IF ~PyInRange(Len(self_subs), sub_id) THEN Raise("IndexError")
    ELSE LET sub_start == PyGet(self_subs, sub_id)[1]
             sub_end == PyGet(self_subs, sub_id)[2]
             prev_sub_end == PyGet(self_subs, sub_id - 1)[2]
         IN IF sub_start - prev_sub_end > NeighbourGap
            THEN Return(<<sub_start, sub_end, <<>> >>)
            ELSE IF ~translation THEN PyItem(self_subs, sub_id - 1)
                                 ELSE PyItem(self_translations, sub_id - 1)

\* mutant: the cutoff compares with >= where > is meant
get_next_subtitle_CutsAtFive(self_subs, self_translations, sub_id, translation) ==
    IF sub_id >= Len(self_subs) - 1 \/ (translation /\ Len(self_translations) = 0)
    THEN IF PyInRange(Len(self_subs), -1)
         THEN Return(<<PyGet(self_subs, -1)[1], PyGet(self_subs, -1)[2], <<>> >>)
         ELSE Raise("IndexError")
    ELSE IF ~PyInRange(Len(self_subs), sub_id) THEN Raise("IndexError")
    ELSE LET sub_start == PyGet(self_subs, sub_id)[1]
             sub_end == PyGet(self_subs, sub_id)[2]
             next_sub_start == PyGet(self_subs, sub_id + 1)[1]
         IN IF next_sub_start - sub_end >= NeighbourGap
            THEN Return(<<sub_start, sub_end, <<>> >>)
            ELSE IF ~translation THEN PyItem(self_subs, sub_id + 1)
                                 ELSE PyItem(self_translations, sub_id + 1)

get_next_subtitle(self_subs, self_translations, sub_id, translation) ==
    IF sub_id >= Len(self_subs) - 1 \/ (translation /\ Len(self_translations) = 0)
    THEN IF PyInRange(Len(self_subs), -1)
         THEN Return(<<PyGet(self_subs, -1)[1], PyGet(self_subs, -1)[2], <<>> >>)
         ELSE Raise("IndexError")
    ELSE IF ~PyInRange(Len(self_subs), sub_id) THEN Raise("IndexError")
    ELSE LET sub_start == PyGet(self_subs, sub_id)[1]
             sub_end == PyGet(self_subs, sub_id)[2]
             next_sub_start == PyGet(self_subs, sub_id + 1)[1]
         IN IF next_sub_start - sub_end > NeighbourGap
            THEN Return(<<sub_start, sub_end, <<>> >>)
            ELSE IF ~translation THEN PyItem(self_subs, sub_id + 1)
                                 ELSE PyItem(self_translations, sub_id + 1)

---------------------------------------------------------------------------
(* AnkiHelper.addNewCard: the choice of the clip and of the fields made from it *)

\* the longest card in seconds when only the start was marked
MaxCardDuration == 60

\* what mpv answers for the properties sub-start and sub-end: MPVCommandError, or
\* the times of the subtitle on screen
NoSubOnScreen == [ok |-> FALSE, start |-> 0, end |-> 0]
SubOnScreen(start, end) == [ok |-> TRUE, start |-> start, end |-> end]

\* the return after show-text "Error: Card duration > 60 seconds."
NoCard == [card |-> FALSE, sub_id |-> None, sub_start |-> -1, sub_end |-> -1,
           Audio |-> FALSE, Video |-> FALSE, clips |-> 0]

\* the card addNewCard builds: the sentence index, sub_start and sub_end as they
\* stand at "if sub_start >= 0 and sub_end >= 0", whether the fields Audio and
\* Video / Video (HTML5) get a value, and the number of audio / video subprocess
\* calls queued for them.  timeEnd - timeStart is even, so that its half is whole.
addNewCard(self_subs, self_translations, self_sub_delay, sub_pad_start, sub_pad_end, fieldsMap, mpv_sub, timePos, timeStart, timeEnd) ==
    IF timeStart >= 0 /\ timeEnd = -1 /\ timePos - timeStart > MaxCardDuration
    THEN NoCard
    ELSE LET end == IF timeStart >= 0 /\ timeEnd = -1 THEN timePos ELSE timeEnd
             sub_id == IF timeStart >= 0
                       THEN get_subtitle_id(self_subs, self_sub_delay,
                                            timeStart + (end - timeStart) \div 2)
                       ELSE get_subtitle_id(self_subs, self_sub_delay, timePos)
             on_screen == IF timeStart = -1 /\ end = -1 /\ mpv_sub.ok
                          THEN <<mpv_sub.start - sub_pad_start + self_sub_delay,
                                 mpv_sub.end + sub_pad_end + self_sub_delay>>
                          ELSE <<-1, -1>>
             sentence == get_subtitle(self_subs, self_translations, sub_id, FALSE).val
             located == IF sub_id # None
                        THEN <<sentence[1] - sub_pad_start + self_sub_delay,
                               sentence[2] + sub_pad_end + self_sub_delay>>
                        ELSE on_screen
             clip == IF timeStart >= 0 /\ end >= 0 THEN <<timeStart, end>> ELSE located
             cut == clip[1] >= 0 /\ clip[2] >= 0
             audio == cut /\ "Audio" \in fieldsMap
             video == cut /\ ("Video" \in fieldsMap \/ "Video (HTML5)" \in fieldsMap)
         IN [card |-> TRUE, sub_id |-> sub_id, sub_start |-> clip[1], sub_end |-> clip[2],
             Audio |-> audio, Video |-> video,
             clips |-> (IF audio THEN 1 ELSE 0) + (IF video THEN 1 ELSE 0)]

\* video = None
NoVideo == <<>>

\* the note fields that make subprocess_video cut the clip of the sentence, and the
\* clip of the sentence with its neighbours
VideoFields == {"Video", "Video (HTML5)"}
WebmVideoFields == {"[webm] Video", "[webm] Video (HTML5)"}
ContextVideoFields == {"Video (with context)", "Video (HTML5 with context)"}
WebmContextVideoFields == {"[webm] Video (with context)", "[webm] Video (HTML5 with context)"}

\* the files addNewCard prepares: the number of subprocess calls it queues, the video
\* file name last assigned to the variable video, as <<start, end, format>>, and for
\* the field Video Subtitles the clip the name of the .srt file is made from
\* (os.path.splitext(video)[0] + ".srt") and the arguments write_subtitles will get
addNewCardFiles(self_subs, self_translations, self_sub_delay, sub_pad_start, sub_pad_end, fieldsMap, mpv_sub, timePos, timeStart, timeEnd) ==
    LET new == addNewCard(self_subs, self_translations, self_sub_delay, sub_pad_start,
                          sub_pad_end, fieldsMap, mpv_sub, timePos, timeStart, timeEnd)
        located == new.sub_id # None
        prev == get_prev_subtitle(self_subs, self_translations, new.sub_id, FALSE).val
        next == get_next_subtitle(self_subs, self_translations, new.sub_id, FALSE).val
        prev_sub_start == prev[1] - sub_pad_start + self_sub_delay
        next_sub_end == next[2] + sub_pad_end + self_sub_delay
        manual == timeStart >= 0 /\ (IF timeEnd = -1 THEN timePos ELSE timeEnd) >= 0
        pad_start == IF manual THEN 0 ELSE sub_pad_start
        pad_end == IF manual THEN 0 ELSE sub_pad_end
        cut == new.sub_start >= 0 /\ new.sub_end >= 0
        Mapped(fields) == fields \cap fieldsMap # {}
        Calls(cond) == IF cond THEN 1 ELSE 0
        video_mp4 == IF cut /\ Mapped(VideoFields)
                     THEN <<new.sub_start, new.sub_end, "mp4">> ELSE NoVideo
        video_webm == IF cut /\ Mapped(WebmVideoFields)
                      THEN <<new.sub_start, new.sub_end, "webm">> ELSE video_mp4
        context_mp4 == IF located /\ Mapped(ContextVideoFields)
                       THEN <<prev_sub_start, next_sub_end, "mp4">> ELSE video_webm
        context_webm == IF located /\ Mapped(WebmContextVideoFields)
                        THEN <<prev_sub_start, next_sub_end, "webm">> ELSE context_mp4
        export == located /\ "Video Subtitles" \in fieldsMap
        video == IF export /\ context_webm = NoVideo
                 THEN <<new.sub_start, new.sub_end, "mp4">> ELSE context_webm
    IN IF ~new.card
       THEN [card |-> FALSE, queued |-> 0, video |-> NoVideo, export |-> FALSE,
             subtitles |-> NoVideo, written |-> NoVideo]
       ELSE [card |-> TRUE,
             queued |-> Calls("Image" \in fieldsMap)
                        + Calls("Image (with subtitles)" \in fieldsMap)
                        + Calls(cut /\ "Audio" \in fieldsMap)
                        + Calls(cut /\ Mapped(VideoFields))
                        + Calls(cut /\ Mapped(WebmVideoFields))
                        + Calls(located /\ "Audio (with context)" \in fieldsMap)
                        + Calls(located /\ Mapped(ContextVideoFields))
                        + Calls(located /\ Mapped(WebmContextVideoFields)),
             video |-> video,
             export |-> export,
             subtitles |-> IF export THEN <<video[1], video[2]>> ELSE NoVideo,
             written |-> IF export
                         THEN <<new.sub_start, new.sub_end, pad_start, pad_end>>
                         ELSE NoVideo]

\* note.dupeOrEmpty() == 2: the note is a duplicate
Duplicate == 2

\* mutant: subprocess_image, subprocess_audio and subprocess_video launch their command
\* themselves, where the code appends it to subprocess_calls
addNewCardEffects_LaunchesWhenQueued(self_subs, self_translations, self_sub_delay, sub_pad_start, sub_pad_end, fieldsMap, mpv_sub, timePos, timeStart, timeEnd, ret) ==
    LET files == addNewCardFiles(self_subs, self_translations, self_sub_delay, sub_pad_start,
                                 sub_pad_end, fieldsMap, mpv_sub, timePos, timeStart, timeEnd)
    IN IF ~files.card THEN <<"show-text">>
       ELSE [k \in 1..files.queued |-> "call"] \o <<"dupeOrEmpty">>
            \o (IF ret = Duplicate THEN <<"show-text">>
                ELSE (IF files.export THEN <<"write_subtitles">> ELSE <<>>)
                     \o <<"add_note", "show-text">>)

\* what addNewCard does to the world outside, in order: the messages it shows on the
\* player, the duplicate check, self.call of every queued command, write_subtitles
\* and add_note; ret is what note.dupeOrEmpty() returns
addNewCardEffects(self_subs, self_translations, self_sub_delay, sub_pad_start, sub_pad_end, fieldsMap, mpv_sub, timePos, timeStart, timeEnd, ret) ==
    LET files == addNewCardFiles(self_subs, self_translations, self_sub_delay, sub_pad_start,
                                 sub_pad_end, fieldsMap, mpv_sub, timePos, timeStart, timeEnd)
    IN IF ~files.card THEN <<"show-text">>
       ELSE IF ret = Duplicate THEN <<"dupeOrEmpty", "show-text">>
       ELSE <<"dupeOrEmpty">> \o [k \in 1..files.queued |-> "call"]
            \o (IF files.export THEN <<"write_subtitles">> ELSE <<>>)
            \o <<"add_note", "show-text">>

---------------------------------------------------------------------------
(* SubtitlesHelper.init, as run by MPVMonitor.on_start_file *)

\* self.subsPath / self.translationsPath before a file is found
NoPath == "None"

\* the language codes of the settings: sentences are rebuilt for "en" only
TargetLanguages == {"en", "fr"}

Init ==
    /\ pc = "idle"
    /\ settings \in TargetLanguages
    /\ subs = <<>>
    /\ translations = <<>>
    /\ subsPath = NoPath
    /\ translationsPath = NoPath
    /\ status_code = "success"
    /\ idx = 0
    /\ sub_delay = 0
    /\ ran = {}
    /\ reader = "none"
    /\ discarded = FALSE

\* mutant: the slot runs on its own thread, at any point of a callback
DispatcherFree_Concurrent == TRUE

\* the callbacks of MPVMonitor and the slot of AnkiHelper run one at a time, each
\* to its end: none starts while on_start_file is inside init
DispatcherFree == pc \in {"idle", "done"}

\* mutant: init does not empty self.translations
StartInit_KeepsTranslations ==
    /\ DispatcherFree
    /\ pc' = "read_target"
    /\ subsPath' = NoPath
    /\ translationsPath' = NoPath
    /\ status_code' = "success"
    /\ subs' = <<>>
    /\ ran' = {}
    /\ reader' = "none"
    /\ discarded' = (subs # <<>> \/ translations # <<>>)
    /\ UNCHANGED <<settings, translations, idx, sub_delay>>

\* on_start_file up to the reset at the head of init
StartInit ==
    /\ DispatcherFree
    /\ pc' = "read_target"
    /\ subsPath' = NoPath
    /\ translationsPath' = NoPath
    /\ status_code' = "success"
    /\ subs' = <<>>
    /\ translations' = <<>>
    /\ ran' = {}
    /\ reader' = "none"
    /\ discarded' = (subs # <<>> \/ translations # <<>>)
    /\ UNCHANGED <<settings, idx, sub_delay>>

\* the file matching the target language code, when find_subtitles finds one:
\* pysubs2.load raises, or read_subtitles returns the captions of the file
ReadTarget(files) ==
    /\ pc = "read_target"
    /\ pc' = "read_fallback"
    /\ \/ UNCHANGED <<subs, subsPath, status_code>>
       \/ /\ subsPath' = "lang"
          /\ \/ /\ status_code' = "error"
                /\ subs' = <<>>
             \/ /\ subs' \in files
                /\ UNCHANGED status_code
    /\ discarded' = FALSE
    /\ UNCHANGED <<settings, translations, translationsPath, idx, sub_delay, ran, reader>>

\* if not self.subs: the first of base.srt, base.ass, base.vtt that exists
ReadFallback(files) ==
    /\ pc = "read_fallback"
    /\ pc' = "read_native"
    /\ \/ UNCHANGED <<subs, subsPath, status_code>>
       \/ /\ subs = <<>>
          /\ subsPath' = "base"
          /\ \/ /\ status_code' = "error"
                /\ subs' = <<>>
             \/ /\ subs' \in files
                /\ UNCHANGED status_code
    /\ UNCHANGED <<settings, translations, translationsPath, idx, sub_delay, ran, reader, discarded>>

\* the file matching the native language code, when find_subtitles finds one
ReadNative(files) ==
    /\ pc = "read_native"
    /\ pc' = "convert"
    /\ \/ UNCHANGED <<translations, translationsPath, status_code>>
       \/ /\ translationsPath' = "lang"
          /\ \/ /\ status_code' = "error"
                /\ translations' = <<>>
             \/ /\ translations' \in files
                /\ UNCHANGED status_code
    /\ UNCHANGED <<settings, subs, subsPath, idx, sub_delay, ran, reader, discarded>>

\* if len(self.subs) != 0 and the target language is 'en': convert_into_sentences()
Convert ==
    /\ pc = "convert"
    /\ pc' = "sync"
    /\ IF Len(subs) # 0 /\ settings = "en"
       THEN /\ subs' = convert_into_sentences(subs)
            /\ ran' = ran \cup {"convert_into_sentences"}
       ELSE UNCHANGED <<subs, ran>>
    /\ UNCHANGED <<settings, translations, subsPath, translationsPath,
                   status_code, idx, sub_delay, reader, discarded>>

\* if len(self.translations) != 0: sync_subtitles(), up to the start of the while loop;
\* a ZeroDivisionError leaves init before self.translations is rebuilt
SyncPass1 ==
    /\ pc = "sync"
    /\ IF Len(translations) # 0
       THEN /\ ran' = ran \cup {"sync_subtitles"}
            /\ IF Pass1Raises(subs, translations)
               THEN /\ pc' = "raised"
                    /\ UNCHANGED translations
               ELSE /\ pc' = "repair"
                    /\ translations' = CollapseBuckets(subs, translations)
       ELSE /\ pc' = "installed"
            /\ UNCHANGED <<translations, ran>>
    /\ idx' = 0
    /\ UNCHANGED <<settings, subs, subsPath, translationsPath, status_code,
                   sub_delay, reader, discarded>>

\* one iteration of the while loop of sync_subtitles
Repair ==
    /\ pc = "repair"
    /\ RepairContinues(subs, idx)
    /\ LET r == RepairStep(subs, translations, idx)
       IN /\ subs' = r.subs
          /\ translations' = r.translations
          /\ idx' = r.idx
    /\ UNCHANGED <<pc, settings, subsPath, translationsPath, status_code,
                   sub_delay, ran, reader, discarded>>

\* the while loop ends and sync_subtitles returns
RepairEnds ==
    /\ pc = "repair"
    /\ ~RepairContinues(subs, idx)
    /\ pc' = "installed"
    /\ idx' = 0
    /\ UNCHANGED <<settings, subs, translations, subsPath, translationsPath,
                   status_code, sub_delay, ran, reader, discarded>>

\* the rest of on_start_file: sub-add of the two paths, update_file_path
FinishStartFile ==
    /\ pc = "installed"
    /\ pc' = "done"
    /\ UNCHANGED <<settings, subs, translations, subsPath, translationsPath,
                   status_code, idx, sub_delay, ran, reader, discarded>>

\* self.subsManager.sub_delay = round(float(val), 3)
on_property_sub_delay ==
    /\ DispatcherFree
    /\ sub_delay' \in Delays \ {sub_delay}
    /\ UNCHANGED <<pc, settings, subs, translations, subsPath, translationsPath,
                   status_code, idx, ran, reader, discarded>>

\* on_property_term_status_msg emits create_anki_card; the slot createAnkiCard runs
\* addNewCard, which reads self.subs and self.translations through the queries
createAnkiCard ==
    /\ DispatcherFree
    /\ reader' = pc
    /\ UNCHANGED <<pc, settings, subs, translations, subsPath, translationsPath,
                   status_code, idx, sub_delay, ran, discarded>>

\* the program, reading target files from targets and native files from natives
NextOn(targets, natives) ==
    \/ StartInit
    \/ ReadTarget(targets)
    \/ ReadFallback(targets)
    \/ ReadNative(natives)
    \/ Convert
    \/ SyncPass1
    \/ Repair
    \/ RepairEnds
    \/ FinishStartFile
    \/ on_property_sub_delay
    \/ createAnkiCard

Next == NextOn(TargetTracks, NativeTracks)

Spec == Init /\ [][Next]_vars
---------------------------------------------------------------------------
(* A second input domain, for the neighbour queries: captions 5 s and 6 s apart *)

WideTargetTracks ==
    Tracks({<<0, 1>>, <<1, 7>>, <<6, 7>>, <<7, 13>>}, MaxSubs, TargetWords)

WideNativeTracks ==
    Tracks({<<0, 1>>, <<6, 7>>, <<7, 13>>}, MaxNative, NativeWords)

NextWide == NextOn(WideTargetTracks, WideNativeTracks)

SpecWide == Init /\ [][NextWide]_vars

---------------------------------------------------------------------------
(* A third input domain, for gap repair: sentences whose neighbours' annotations
   reach into them, so that every test of the chain decides somewhere *)

RepairTargetTracks ==
    Tracks({<<0, 2>>, <<2, 4>>, <<2, 5>>, <<4, 8>>, <<5, 8>>}, MaxSubs, TargetWords)

RepairNativeTracks ==
    Tracks({<<0, 2>>, <<0, 3>>, <<0, 4>>, <<3, 8>>, <<6, 8>>}, MaxNative, NativeWords)

NextRepair == NextOn(RepairTargetTracks, RepairNativeTracks)

SpecRepair == Init /\ [][NextRepair]_vars

\* sync_subtitles runs on the thread that called init, which keeps running: an
\* iteration of the while loop that can be taken is taken, and so is its exit
SpecRepairLive == SpecRepair /\ WF_vars(Repair) /\ WF_vars(RepairEnds)

---------------------------------------------------------------------------
(* A fourth input domain, for convert_into_sentences: captions 2 s and 3 s apart and
   sentences of 14 s and 15 s, saying words that never stop a merge; and captions
   shown together, saying words of every kind of first and last character *)

\* words that neither end a sentence nor open a new line
OpenWords == <<"We", "I", "We", "I", "We">>

SentenceTargetTracks ==
    Tracks({<<0, 1>>, <<3, 4>>, <<4, 5>>, <<3, 14>>, <<3, 15>>}, MaxSubs, OpenWords)
    \cup TracksSaying({<<0, 1>>}, MaxSubs, {"We", "(ok)", "so...", "I", "...and"})

SentenceNativeTracks == Tracks({<<0, 1>>, <<3, 4>>}, MaxNative, NativeWords)

NextSentence == NextOn(SentenceTargetTracks, SentenceNativeTracks)

SpecSentence == Init /\ [][NextSentence]_vars

---------------------------------------------------------------------------
(* A fifth input domain, for the requests the player sends to addNewCard: few tracks,
   so that every request can be tried on every track installed *)

CardTargetTracks ==
    Tracks({<<0, 2>>, <<2, 4>>, <<4, 8>>}, MaxSubs, TargetWords)

CardNativeTracks == Tracks({<<0, 2>>, <<4, 8>>}, MaxNative, NativeWords)

NextCard == NextOn(CardTargetTracks, CardNativeTracks)

SpecCard == Init /\ [][NextCard]_vars

---------------------------------------------------------------------------
(* Properties *)

\* sync_subtitles has run and returned
SyncReturned == pc \in {"installed", "done"} /\ "sync_subtitles" \in ran

\* some sentence is the merge of two captions or more
SomeMerged == \E k \in 1..Len(subs) : Len(subs[k][3]) >= 2

\* C1: once pass 1 of sync_subtitles has rebuilt self.translations, the sentence track
\* and the annotation track have the same length: after pass 1, after every iteration
\* of the gap-repair loop (so after every deletion) and after sync_subtitles returned.
C1_SameLength ==
    (pc \in {"repair", "installed", "done"} /\ "sync_subtitles" \in ran)
        => Len(subs) = Len(translations)

\* the gap-repair loop is running, has merged and deleted, and sentences remain
C1_Witness ==
    /\ pc = "repair"
    /\ settings = "fr"
    /\ SomeMerged
    /\ Len(subs) >= 2

\* C2: during gap repair no annotation before idx is empty, and after sync_subtitles
\* returned no annotation is empty unless exactly one sentence remains.
C2_NoEmptyAnnotation ==
    /\ pc = "repair" => \A k \in 1..idx : translations[k][3] # <<>>
    /\ SyncReturned =>
          \/ Len(subs) = 1
          \/ \A k \in 1..Len(translations) : translations[k][3] # <<>>

\* sync_subtitles returned after a deletion, with more than one sentence left
C2_Witness ==
    /\ SyncReturned
    /\ settings = "fr"
    /\ SomeMerged
    /\ Len(subs) >= 2

\* C3: the files being ordered by start, the sentence track is ordered by start in
\* every state of init (so after every merge and deletion of gap repair), and so is
\* the local list of convert_into_sentences after every caption it consumes.
C3_OrderedByStart ==
    /\ SortedByStart(subs)
    /\ pc = "convert" => \A n \in 0..Len(subs) : SortedByStart(ConvertPrefix(subs, n))

\* convert_into_sentences merged two captions, sync_subtitles ran, two sentences remain
C3_Witness ==
    /\ pc = "installed"
    /\ ran = {"convert_into_sentences", "sync_subtitles"}
    /\ Len(subs) = 2
    /\ SomeMerged

\* the instants, paddings, indices and delay shifts the queries are tried with
Pads == {0, 1}
Indices == (0 - MaxSubs - 1)..(MaxSubs + 1)
Shifts == {1, 2}

\* every entry of track overlapping [clip_start + pad_start, clip_end - pad_end],
\* rebased to clip_start: the scan of filter_subtitles without its break
ExhaustiveScan(track, clip_start, clip_end, pad_start, pad_end) ==
    LET hits == SelectSeq(track, LAMBDA sub :
                    sub[2] > (clip_start + pad_start) /\ sub[1] < (clip_end - pad_end))
    IN [k \in 1..Len(hits) |->
            <<hits[k][1] - clip_start, hits[k][2] - clip_start, hits[k][3]>>]

\* C4: on the tracks init installed, filter_subtitles returns what the scan without
\* the early exit returns, for sentences and for annotations and every non-negative
\* padding.
C4_FilterIsExhaustive ==
    pc = "done" =>
        \A clip_start \in QueryTimes, clip_end \in QueryTimes :
        \A pad_start \in Pads, pad_end \in Pads, translation \in BOOLEAN :
            filter_subtitles(subs, translations, clip_start, clip_end,
                             pad_start, pad_end, translation)
            = ExhaustiveScan(IF translation THEN translations ELSE subs,
                             clip_start, clip_end, pad_start, pad_end)

\* a query result that is the sentinel: returned, not raised, with empty text
IsSentinel(r) == r.exc = "none" /\ r.val[3] = <<>>

\* C5: no query raises, and each returns a result with empty text, for an index out
\* of range, for any index on an empty track, and for a translation that is absent.
C5_QueriesNeverRaise ==
    pc = "done" =>
        /\ \A sub_id \in Indices, translation \in BOOLEAN :
              (sub_id < 0 \/ sub_id >= Len(subs) \/ (translation /\ Len(translations) = 0))
              => /\ IsSentinel(get_subtitle(subs, translations, sub_id, translation))
                 /\ IsSentinel(get_prev_subtitle(subs, translations, sub_id, translation))
                 /\ IsSentinel(get_next_subtitle(subs, translations, sub_id, translation))
        /\ Len(subs) = 0 =>
              \A t \in QueryTimes, u \in QueryTimes :
                  /\ get_subtitle_id(subs, sub_delay, t) = None
                  /\ get_subtitle_by_time_range(subs, translations, sub_delay, t, u, FALSE) = <<>>

\* C6: shifting sub_delay and the playback times of a query by the same amount does
\* not change what get_subtitle_id, write_subtitles and get_subtitle_by_time_range
\* select.
C6_SubDelayConsistent ==
    pc = "done" =>
        \A d \in Shifts, t \in QueryTimes, u \in QueryTimes :
            /\ get_subtitle_id(subs, sub_delay + d, t + d)
                   = get_subtitle_id(subs, sub_delay, t)
            /\ write_subtitles(subs, translations, sub_delay + d, t + d, u + d, 0, 0)
                   = write_subtitles(subs, translations, sub_delay, t, u, 0, 0)
            /\ \A translation \in BOOLEAN :
                   get_subtitle_by_time_range(subs, translations, sub_delay + d,
                                              t + d, u + d, translation)
                   = get_subtitle_by_time_range(subs, translations, sub_delay,
                                                t, u, translation)

\* C7: when read_subtitles failed on a file, init ends with status_code "error", both
\* tracks empty and neither convert_into_sentences nor sync_subtitles run.
C7_FailedParseInstallsNothing ==
    (pc \in {"installed", "done"} /\ status_code = "error")
        => subs = <<>> /\ translations = <<>> /\ ran = {}

GapAfter(i) == PyGet(subs, i + 1)[1] - PyGet(subs, i)[2]

\* C9: on the installed tracks, with translation not requested or requested and
\* present: at index 0 get_prev_subtitle returns the span of sentence 0 with empty
\* text and at the last index get_next_subtitle that of the last sentence; elsewhere
\* they return the neighbouring sentence (annotation) when the gap to it is at most
\* 5 s and the span of sentence i with empty text when it is larger.
C9_NeighbourCutoff ==
    pc = "done" =>
        \A i \in 0..(Len(subs) - 1), translation \in BOOLEAN :
            (~translation \/ Len(translations) # 0) =>
                LET track == IF translation THEN translations ELSE subs
                    own == Return(<<PyGet(subs, i)[1], PyGet(subs, i)[2], <<>> >>)
                    prev == get_prev_subtitle(subs, translations, i, translation)
                    next == get_next_subtitle(subs, translations, i, translation)
                IN /\ prev = IF i = 0 THEN own
                             ELSE IF GapAfter(i - 1) <= 5 THEN Return(PyGet(track, i - 1))
                             ELSE own
                   /\ next = IF i = Len(subs) - 1 THEN own
                             ELSE IF GapAfter(i) <= 5 THEN Return(PyGet(track, i + 1))
                             ELSE own

\* two annotated sentences more than 5 s apart are installed
C9_Witness ==
    /\ pc = "done"
    /\ Len(subs) = 2
    /\ Len(translations) = 2
    /\ GapAfter(0) > 5

\* C10: running the gap-repair loop again on the pair sync_subtitles left changes
\* neither the sentence track nor the annotation track.
C10_RepairIdempotent ==
    SyncReturned =>
        LET r == GapRepair(subs, translations, 0)
        IN r.subs = subs /\ r.translations = translations

\* gap repair merged down to one sentence whose annotation is still empty
C10_Witness ==
    /\ SyncReturned
    /\ Len(subs) = 1
    /\ translations[1][3] = <<>>
    /\ SomeMerged

\* C11: on the installed tracks, for every clip window, padding and sub_delay, reading
\* back the file write_subtitles wrote gives the list filter_subtitles returned: the
\* same (start, end, text), relative to the clip start, also for an entry that starts
\* before the clip start.
C11_ExportRoundTrip ==
    pc = "done" =>
        \A clip_start \in QueryTimes, clip_end \in QueryTimes :
        \A pad_start \in Pads, pad_end \in Pads :
            LET written == write_subtitles(subs, translations, sub_delay,
                                           clip_start, clip_end, pad_start, pad_end)
            IN read_subtitles(srt_records(written)) = written

\* the indices of the sentences whose [start, end] contains time, both ends included
Containing(time) ==
    {i \in 0..(Len(subs) - 1) : PyGet(subs, i)[1] <= time /\ time <= PyGet(subs, i)[2]}

\* C12: on the installed track, get_subtitle_id(t) is the lowest index i with
\* subs[i].start <= t - sub_delay <= subs[i].end, and None when no sentence contains
\* t - sub_delay.
C12_LowestContaining ==
    pc = "done" =>
        \A t \in QueryTimes :
            LET hits == Containing(t - sub_delay)
                sub_id == get_subtitle_id(subs, sub_delay, t)
            IN IF hits = {} THEN sub_id = None
               ELSE sub_id \in hits /\ \A i \in hits : sub_id <= i

\* with a delay set, two sentences contain the same instant, one of them only at
\* its last instant, and another instant is in no sentence
C12_Witness ==
    /\ pc = "done"
    /\ sub_delay = 1
    /\ \E t \in QueryTimes :
          /\ Cardinality(Containing(t - sub_delay)) >= 2
          /\ \E i \in Containing(t - sub_delay) : PyGet(subs, i)[2] = t - sub_delay
    /\ \E t \in QueryTimes : t - sub_delay >= 0 /\ Containing(t - sub_delay) = {}

\* C13: init starts from nothing and installs only what it read for filePath: past
\* its reset both tracks are empty, both paths None and status_code "success"; and
\* when it is over, a track is non-empty only if its file was found, status_code is
\* "error" only if a file was found, and only functions called by this init have run,
\* whatever the file opened before had left.
C13_RebuiltFromScratch ==
    /\ pc = "read_target" =>
          /\ subs = <<>> /\ translations = <<>>
          /\ subsPath = NoPath /\ translationsPath = NoPath
          /\ status_code = "success"
    /\ pc \in {"installed", "done"} =>
          /\ subsPath = NoPath => subs = <<>>
          /\ translationsPath = NoPath => translations = <<>>
          /\ status_code = "error" => (subsPath # NoPath \/ translationsPath # NoPath)
          /\ "convert_into_sentences" \in ran => subsPath # NoPath
          /\ "sync_subtitles" \in ran => translationsPath # NoPath

\* init has made its reset for a file opened after one that had captions
C13_Witness ==
    /\ pc = "read_target"
    /\ discarded

\* the instants the player sends as timePos, timeStart and timeEnd (-1: not marked),
\* what mpv may have on screen, and the fields a note type may map
CardTimes == {0, 2, 4, 8, 70}
Marks == {-1} \cup CardTimes
OnScreen == {NoSubOnScreen, SubOnScreen(2, 3)}
FieldsMaps == SUBSET {"Audio", "Video", "Video (HTML5)"}

\* C14: with no sentence installed, whatever timePos, timeStart and timeEnd the
\* player sends, addNewCard gives the fields Audio, Video and Video (HTML5) no value
\* and queues no audio or video subprocess call.
C14_ClipsNeedSubtitles ==
    (pc = "done" /\ subs = <<>>) =>
        \A timePos \in CardTimes, timeStart \in Marks, timeEnd \in Marks :
        \A mpv_sub \in OnScreen, fieldsMap \in FieldsMaps, pad \in Pads :
            LET new == addNewCard(subs, translations, sub_delay, pad, pad, fieldsMap,
                                  mpv_sub, timePos, timeStart, timeEnd)
            IN ~new.Audio /\ ~new.Video /\ new.clips = 0

\* pass 1 of sync_subtitles is about to run on the tracks read, and will not raise
Pass1Runs == pc = "sync" /\ Len(translations) # 0 /\ ~Pass1Raises(subs, translations)

\* C15: the annotation pass 1 builds for a sentence with contributions starts at the
\* least start of the contributions, ends at their greatest end, and says their
\* texts joined in the order matched.
C15_CollapseSpansBucket ==
    Pass1Runs =>
        \A i \in 1..Len(subs) :
            LET bucket == Bucket(subs, translations, i)
                entry == CollapseBuckets(subs, translations)[i]
            IN Len(bucket) # 0 =>
                  /\ \A k \in 1..Len(bucket) : entry[1] <= bucket[k][1] /\ entry[2] >= bucket[k][2]
                  /\ \E k \in 1..Len(bucket) : entry[1] = bucket[k][1]
                  /\ \E k \in 1..Len(bucket) : entry[2] = bucket[k][2]
                  /\ entry[3] = JoinTexts(bucket)

\* the span of a contains the span of b
Spans(a, b) == a[1] <= b[1] /\ a[2] >= b[2]

\* C16: a merge only widens: the sentence convert_into_sentences writes for the last
\* sentence and a caption contains both, and so does the sentence gap repair writes
\* for the sentence with the empty annotation and the neighbour it is merged into.
C16_MergesWiden ==
    /\ (pc = "convert" /\ settings = "en") =>
          \A n \in 2..Len(subs) :
              LET out == ConvertPrefix(subs, n - 1)
                  prev == out[Len(out)]
                  merged == MergeInto(prev, subs[n])
              IN ShouldMerge(prev, subs[n]) => Spans(merged, prev) /\ Spans(merged, subs[n])
    /\ (pc = "repair" /\ RepairContinues(subs, idx) /\ PyGet(translations, idx)[3] = <<>>) =>
          LET other == IF MergesBackward(subs, translations, idx) THEN idx - 1 ELSE idx + 1
              merged == IF MergesBackward(subs, translations, idx)
                        THEN PyGet(MergeBackward(subs, idx), idx - 1)
                        ELSE PyGet(MergeForward(subs, idx), idx + 1)
          IN Spans(merged, PyGet(subs, idx)) /\ Spans(merged, PyGet(subs, other))

\* C17: sync_subtitles never raises on tracks whose captions have end >= start: init
\* never ends in the ZeroDivisionError of pass 1.
C17_SyncNeverRaises == pc # "raised"

\* gap repair stands at an empty annotation
AtEmptyAnnotation ==
    pc = "repair" /\ RepairContinues(subs, idx) /\ PyGet(translations, idx)[3] = <<>>

\* the rule of the claim that decides at index i, an absent neighbour counting as 0
DecidingRule(i) ==
    LET last == Len(subs) - 1
        start == PyGet(subs, i)[1]
        end == PyGet(subs, i)[2]
        prev_end == IF i > 0 THEN PyGet(translations, i - 1)[2] ELSE 0
        next_start == IF i < last THEN PyGet(translations, i + 1)[1] ELSE 0
        rule1 == i = last
        rule2 == end <= next_start /\ i > 0
        rule3 == start >= next_start \/ start >= prev_end
    IN CASE rule1 -> [rule |-> 1, backward |-> TRUE]
         [] ~rule1 /\ rule2 -> [rule |-> 2, backward |-> TRUE]
         [] ~rule1 /\ ~rule2 /\ rule3 -> [rule |-> 3, backward |-> FALSE]
         [] ~rule1 /\ ~rule2 /\ ~rule3 ->
                [rule |-> 4, backward |-> (prev_end - start > end - next_start) /\ i > 0]

\* the sentence track with the sentence at position p merged into the one before it
\* (backward) or after it (forward)
MergedAway(p, backward) ==
    IF backward
    THEN SubSeq(subs, 1, p - 2)
         \o << <<subs[p - 1][1], subs[p][2], subs[p - 1][3] \o subs[p][3]>> >>
         \o SubSeq(subs, p + 1, Len(subs))
    ELSE SubSeq(subs, 1, p - 1)
         \o << <<subs[p][1], subs[p + 1][2], subs[p][3] \o subs[p + 1][3]>> >>
         \o SubSeq(subs, p + 2, Len(subs))

\* the spans of a track
SpansOf(track) == [k \in 1..Len(track) |-> <<track[k][1], track[k][2]>>]

\* the example: S0[0,2], S1[2,5], S2[5,8] annotated A[0,2], nothing, C[6,8]
AtExample ==
    /\ AtEmptyAnnotation
    /\ idx = 1
    /\ SpansOf(subs) = << <<0, 2>>, <<2, 5>>, <<5, 8>> >>
    /\ SpansOf(translations) = << <<0, 2>>, <<2, 5>>, <<6, 8>> >>
    /\ translations[1][3] # <<>> /\ translations[3][3] # <<>>

\* C18: at an empty annotation one iteration of gap repair merges the sentence in the
\* direction the four rules give in their order of priority, and deletes it and its
\* annotation; in the example the second rule decides and the sentences left are
\* [0,5] and [5,8].
C18_RepairDirection ==
    /\ AtEmptyAnnotation =>
          LET step == RepairStep(subs, translations, idx)
          IN /\ step.subs = MergedAway(idx + 1, DecidingRule(idx).backward)
             /\ step.translations = PyDel(translations, idx)
             /\ step.idx = idx
    /\ AtExample =>
          /\ DecidingRule(idx).rule = 2
          /\ SpansOf(RepairStep(subs, translations, idx).subs) = << <<0, 5>>, <<5, 8>> >>

\* gap repair stands at the empty annotation of the example
C18_Witness == AtExample

\* the length of the part R and T share, when they overlap
Overlap(R, T) ==
    (IF R[2] > T[2] THEN T[2] ELSE R[2]) - (IF T[1] > R[1] THEN T[1] ELSE R[1])

\* R and T overlap: T.start < R.end and T.end > R.start
Overlaps(R, T) == T[1] < R[2] /\ T[2] > R[1]

\* the positions of the sentences R overlaps by more than a quarter of its duration
Qualifying(R) ==
    {i \in 1..Len(subs) :
        Overlaps(R, subs[i]) /\ OverlapDen * Overlap(R, subs[i]) > R[2] - R[1]}

\* the positions of the sentences whose bucket holds R
AttachedTo(R) ==
    {i \in 1..Len(subs) :
        \E j \in 1..Len(Bucket(subs, translations, i)) : Bucket(subs, translations, i)[j] = R}

\* C19: in a pass 1 that does not raise, a native caption is in the bucket of the
\* first sentence it overlaps by more than a quarter of its own duration and in no
\* other bucket, and in no bucket at all when there is no such sentence.
C19_FirstQualifyingSentence ==
    Pass1Runs =>
        \A k \in 1..Len(translations) :
            LET R == translations[k]
            IN IF Qualifying(R) = {} THEN AttachedTo(R) = {}
               ELSE \E i \in Qualifying(R) :
                        /\ \A j \in Qualifying(R) : i <= j
                        /\ AttachedTo(R) = {i}

\* a native caption overlaps a sentence by exactly a quarter of its duration and is
\* attached to a later sentence; another one is attached nowhere
C19_Witness ==
    /\ Pass1Runs
    /\ \E k \in 1..Len(translations), i \in 1..Len(subs) :
          /\ Overlaps(translations[k], subs[i])
          /\ OverlapDen * Overlap(translations[k], subs[i]) = translations[k][2] - translations[k][1]
          /\ \E j \in AttachedTo(translations[k]) : j > i
    /\ \E k \in 1..Len(translations) : AttachedTo(translations[k]) = {}

\* convert_into_sentences is about to run on the captions read
ConvertRuns == pc = "convert" /\ settings = "en" /\ Len(subs) # 0

\* the last sentence built from the captions before the n-th one
LastBefore(n) == ConvertPrefix(subs, n - 1)[Len(ConvertPrefix(subs, n - 1))]

\* the four conditions of the claim for caption C and the last sentence P
Mergeable(P, C) ==
    /\ C[1] - P[2] <= 2
    /\ C[2] - P[1] < 15
    /\ C[3][1] \notin BlockingLeadWords
    /\ \/ P[3][Len(P[3])] \notin TerminalWords
       \/ /\ P[3][Len(P[3])] \in EllipsisEndWords
          /\ C[3][1] \in EllipsisLeadWords \cup LowerLeadWords \cup PronounIWords

\* C20: for every caption C after the first and the last sentence P built so far,
\* convert_into_sentences replaces P by P merged with C when the four conditions
\* hold and appends C otherwise, and leaves the sentences before P as they are.
C20_MergeCondition ==
    ConvertRuns =>
        /\ ConvertPrefix(subs, 1) = <<subs[1]>>
        /\ \A n \in 2..Len(subs) :
              LET before == ConvertPrefix(subs, n - 1)
                  after == ConvertPrefix(subs, n)
                  P == LastBefore(n)
                  C == subs[n]
              IN /\ SubSeq(after, 1, Len(before) - 1) = SubSeq(before, 1, Len(before) - 1)
                 /\ IF Mergeable(P, C)
                    THEN /\ Len(after) = Len(before)
                         /\ after[Len(after)] = <<P[1], C[2], P[3] \o C[3]>>
                    ELSE /\ Len(after) = Len(before) + 1
                         /\ after[Len(before)] = P
                         /\ after[Len(after)] = C

\* a caption 2 s after the last sentence is merged into it, and the next caption is
\* not, because it would end 15 s after the start of the sentence built so far,
\* though less than 15 s after the start of the caption before it
C20_Witness ==
    /\ ConvertRuns
    /\ Len(subs) = 3
    /\ subs[2][1] - subs[1][2] = 2
    /\ Mergeable(subs[1], subs[2])
    /\ subs[3][2] - LastBefore(3)[1] = 15
    /\ subs[3][2] - subs[2][1] < 15
    /\ Mergeable(subs[2], subs[3])
    /\ Len(convert_into_sentences(subs)) = 2

\* C21: after sync_subtitles returned, the annotation track is ordered by start.
C21_AnnotationsOrdered ==
    SyncReturned => SortedByStart(translations)

\* the annotations that have a text, in track order
NonEmpty(t) == SelectSeq(t, LAMBDA a : a[3] # <<>>)

\* what a step of gap repair keeps: the annotations that have a text, unchanged and in
\* their order; and, when the loop ends with k of them, what sync_subtitles leaves
RepairKeeps(none_left) ==
    pc = "repair" =>
        /\ NonEmpty(translations') = NonEmpty(translations)
        /\ pc' = "installed" =>
              IF Len(NonEmpty(translations)) >= 1
              THEN /\ translations' = NonEmpty(translations)
                   /\ Len(subs') = Len(NonEmpty(translations))
              ELSE Len(subs') = none_left

\* C22 as stated: gap repair changes no annotation that has a text and deletes only
\* empty ones, so that the k >= 1 annotations of pass 1 that have a text are the final
\* annotation track, with k sentences; when pass 1 gave none, one sentence remains.
C22_OnlyEmptyDeleted_Stated == [][RepairKeeps(1)]_vars

\* C22, amended: as above, but when pass 1 gave no annotation with a text, one sentence
\* remains if there was any sentence, and none if the sentence track was empty.
C22_OnlyEmptyDeleted == [][RepairKeeps(IF subs = <<>> THEN 0 ELSE 1)]_vars

\* sync_subtitles returned two annotations with a text after deleting an empty one
C22_Witness ==
    /\ pc = "installed"
    /\ "sync_subtitles" \in ran
    /\ settings = "fr"
    /\ Len(translations) = 2
    /\ \E k \in 1..Len(subs) : Len(subs[k][3]) = 2

\* the iterations the while loop can still make: 2 * len(self.subs) when idx is 0
IterationsLeft(len, i) == 2 * len - i

\* an iteration advances idx or removes one sentence, and uses up the iterations left;
\* the loop ends with no empty annotation or with one sentence at most
RepairProgress ==
    pc = "repair" =>
        /\ pc' = "repair" =>
              /\ \/ idx' = idx + 1 /\ Len(subs') = Len(subs)
                 \/ idx' = idx /\ Len(subs') = Len(subs) - 1
              /\ IterationsLeft(Len(subs'), idx') < IterationsLeft(Len(subs), idx)
              /\ IterationsLeft(Len(subs'), idx') >= 0
        /\ pc' = "installed" =>
              \/ Len(subs') <= 1
              \/ \A k \in 1..Len(translations') : translations'[k][3] # <<>>

\* C23: the gap-repair loop terminates: each iteration either advances idx or removes
\* one sentence, and lowers 2 * len(self.subs) - idx, which is 2 * len(self.subs) when
\* the loop starts and never negative, so the loop makes at most 2 * len(self.subs)
\* iterations; once entered it is left, with no empty annotation or a single sentence.
C23_RepairTerminates ==
    /\ [][RepairProgress]_vars
    /\ (pc = "repair") ~> (pc = "installed")

\* the loop is at its exit after it removed a sentence and advanced past another
C23_Witness ==
    /\ pc = "repair"
    /\ ~RepairContinues(subs, idx)
    /\ idx >= 1
    /\ SomeMerged
    /\ settings = "fr"

\* " ".join of the texts of a track, in track order
RECURSIVE AllText(_)
AllText(track) ==
    IF Len(track) = 0 THEN <<>> ELSE track[1][3] \o AllText(Tail(track))

\* a step of convert_into_sentences or of sync_subtitles keeps the joined texts
TextKept ==
    pc \in {"convert", "sync", "repair"} => AllText(subs') = AllText(subs)

\* C24: merging loses and reorders no target text: the joined texts of the sentence
\* track are the same before and after convert_into_sentences, and the same before and
\* after pass 1, every iteration of gap repair and the exit of its loop.
C24_TextPreserved == [][TextKept]_vars

\* convert_into_sentences merged "We" and "go.", and gap repair then merged "now",
\* which convert_into_sentences leaves apart after a full stop
C24_Witness ==
    /\ pc = "installed"
    /\ settings = "en"
    /\ ran = {"convert_into_sentences", "sync_subtitles"}
    /\ Len(subs) = 1
    /\ subs[1][3] = <<"We", "go.", "now">>

\* C25: in an iteration of gap repair every index of self.subs and of
\* self.translations that is read or written lies in 0..len-1: translations[idx] at
\* the head of the iteration, and at an empty annotation idx-1, idx+1 of both lists;
\* so no backward merge happens at idx 0 and no forward merge at the last index.
C25_IndicesInRange ==
    /\ (pc = "repair" /\ RepairContinues(subs, idx)) =>
          idx \in 0..(Len(translations) - 1)
    /\ AtEmptyAnnotation =>
          /\ SubsAccessed(subs, translations, idx) \subseteq 0..(Len(subs) - 1)
          /\ TranslationsAccessed(subs, idx) \subseteq 0..(Len(translations) - 1)
          /\ idx = 0 => ~MergesBackward(subs, translations, idx)
          /\ idx = Len(subs) - 1 => MergesBackward(subs, translations, idx)

\* the empty annotation is the first one and its sentence ends before the next
\* annotation starts: the second test of the chain holds but for "idx > 0"
C25_Witness ==
    /\ AtEmptyAnnotation
    /\ idx = 0
    /\ PyGet(subs, 0)[2] <= PyGet(translations, 1)[1]

\* the field mappings of a note type that has, or has not, a video of the sentence, a
\* video of the sentence with its neighbours, and the subtitles of the video
ExportMaps == SUBSET {"Video", "Video (with context)", "Video Subtitles"}

\* C26: when addNewCard exports subtitles for the field Video Subtitles, the clip
\* (start, end) the name of the .srt file is made from is the clip write_subtitles
\* filters and rebases against, whatever the fields mapped.
C26_SubtitlesMatchClip ==
    pc = "done" =>
        \A timePos \in CardTimes, timeStart \in Marks, timeEnd \in Marks :
        \A mpv_sub \in OnScreen, fieldsMap \in ExportMaps, pad \in Pads :
            LET files == addNewCardFiles(subs, translations, sub_delay, pad, pad, fieldsMap,
                                         mpv_sub, timePos, timeStart, timeEnd)
            IN files.export =>
                  files.subtitles = <<files.written[1], files.written[2]>>

\* the requests tried: a position early in the file or past a minute, the start marked
\* or not, the end marked or not; the field mappings of three note types; and the
\* answers of note.dupeOrEmpty()
RequestPos == {2, 70}
RequestStart == {-1, 0}
RequestEnd == {-1, 4}
RequestMaps == { {}, {"Image", "Audio", "Video Subtitles"}, {"Video", "Audio (with context)", "Video (with context)"} }
DupeResults == {0, 1, Duplicate}

\* what launches a subprocess, writes a file or adds the note
Launches == {"call", "write_subtitles", "add_note"}

\* C27: a request addNewCard rejects, for a card longer than 60 s (timeStart >= 0,
\* timeEnd == -1, timePos - timeStart > 60) or for a duplicate (dupeOrEmpty() == 2),
\* launches no subprocess, writes no subtitle file and adds no note; and every launch,
\* write and add_note comes after a duplicate check that has passed.
C27_NoLaunchWhenRejected ==
    pc = "done" =>
        \A timePos \in RequestPos, timeStart \in RequestStart, timeEnd \in RequestEnd :
        \A mpv_sub \in OnScreen, fieldsMap \in RequestMaps, ret \in DupeResults :
            LET effects == addNewCardEffects(subs, translations, sub_delay, 0, 0, fieldsMap,
                                             mpv_sub, timePos, timeStart, timeEnd, ret)
                too_long == timeStart >= 0 /\ timeEnd = -1 /\ timePos - timeStart > 60
            IN /\ (too_long \/ ret = Duplicate) =>
                      \A k \in 1..Len(effects) : effects[k] \notin Launches
               /\ \A k \in 1..Len(effects) :
                      effects[k] \in Launches =>
                          /\ ret # Duplicate
                          /\ \E j \in 1..(k - 1) : effects[j] = "dupeOrEmpty"

\* a sentence is installed for which a request queues two commands and the export of
\* subtitles, and is then rejected as a duplicate; and a request is rejected as too long
C27_Witness ==
    /\ pc = "done"
    /\ Len(subs) >= 2
    /\ addNewCardFiles(subs, translations, sub_delay, 0, 0, {"Image", "Audio", "Video Subtitles"},
                       NoSubOnScreen, 2, -1, -1).queued = 2
    /\ addNewCardFiles(subs, translations, sub_delay, 0, 0, {"Image", "Audio", "Video Subtitles"},
                       NoSubOnScreen, 2, -1, -1).export
    /\ addNewCardEffects(subs, translations, sub_delay, 0, 0, {"Image", "Audio", "Video Subtitles"},
                         NoSubOnScreen, 2, -1, -1, Duplicate) = <<"dupeOrEmpty", "show-text">>
    /\ addNewCardEffects(subs, translations, sub_delay, 0, 0, {"Image", "Audio", "Video Subtitles"},
                         NoSubOnScreen, 70, 0, -1, 0) = <<"show-text">>

====
